---- MODULE Spec2Model ----
(***************************************************************************)
(* Session lifecycle and transport of the go-fritzbox client.              *)
(*                                                                         *)
(* One Client with at most one Session is used by callers (goroutines).    *)
(* Time is counted in units of five minutes.  A call runs in steps: the    *)
(* condition of Session.Refresh, the branch Refresh takes, and the HTTP    *)
(* exchange with the rest of Client.Do and of its caller.  Time may pass   *)
(* between the steps of a call; it does not pass at the instant a call     *)
(* returns (pc = "done"), where the caller sees the result.                *)
(*                                                                         *)
(* The device service builds one switch command per call and sends it     *)
(* through the same Client.Do.  Strings the code parses, trims or encodes  *)
(* are sequences of characters.                                            *)
(***************************************************************************)
EXTENDS Integers, Sequences, FiniteSets, TLC

VARIABLES
    now,        \* time.Now(), in units of five minutes
    session,    \* c.session: << >> when nil, else <<[Sid, Challenge, Expires]>>
    issued,     \* non-sentinel SIDs the gateway has returned in login responses
    th          \* per caller: position in its call, its locals and its result

vars == <<now, session, issued, th>>

---------------------------------------------------------------------------
(* Bounds *)

MaxTime == 5

Threads == {1, 2}

Main == CHOOSE t \in Threads : \A u \in Threads : t <= u

---------------------------------------------------------------------------
(* Constants of the program *)

DefaultSid == "0000000000000000"

\* 10 * time.Minute
DefaultExpires == 2

ZeroTime == 0

Nil == "nil"

ErrInvalidCred == "fritzbox: invalid credentials"

ErrExpiredSess == "fritzbox: session expired"

ErrWrongStatus == "Wrong status code"

ErrTransport == "http: exchange failed"

ErrDecode == "decode error"

Panic == "panic: nil pointer dereference"

---------------------------------------------------------------------------
(* The gateway: what it may answer *)

Tokens == {"ff88e4d39354992f"}

GatewaySids == Tokens \cup {DefaultSid}

Challenges == {"1234567z"}

StatusCodes == {101, 200, 400}

ContentTypes == {"text/xml", "application/json", "text/plain"}

\* a body is well formed, malformed from the start, or malformed after the
\* decoder has already stored the fields it carries
Bodies == {"ok", "bad", "badtail"}

NetErr ==
    [neterr |-> TRUE, status |-> 0, ctype |-> "", body |-> "", sid |-> "",
     challenge |-> "", text |-> << >>, list |-> << >>]

NoResp ==
    [neterr |-> FALSE, status |-> 0, ctype |-> "", body |-> "", sid |-> "",
     challenge |-> "", text |-> << >>, list |-> << >>]

\* answers of login_sid.lua: a SessionInfo
LoginResponses ==
    {NetErr} \cup
    [neterr : {FALSE}, status : StatusCodes, ctype : ContentTypes,
     body : Bodies, sid : GatewaySids, challenge : Challenges, text : {<< >>},
     list : {<< >>}]

\* answers of the other endpoints
PlainResponses ==
    {NetErr} \cup
    [neterr : {FALSE}, status : StatusCodes, ctype : ContentTypes,
     body : Bodies, sid : {""}, challenge : {""}, text : {<< >>},
     list : {<< >>}]

\* plain-text bodies of homeautoswitch.lua, character by character
Texts ==
    { <<"1", "\n">>, <<"0", "\n">>, <<"t", "r", "u", "e">>,
      <<"2", "5", "3", "\n">>, <<"2", "5", "4", "\n">>, <<" ", "4", "8", "\n">>,
      <<"3", "2", "\n">>,
      <<"-", "5", "\n">>, <<"i", "n", "v", "a", "l", "\n">>, << >> }

\* answers of homeautoswitch.lua to a switch command
DeviceResponses ==
    {NetErr} \cup
    [neterr : {FALSE}, status : StatusCodes, ctype : {"text/plain"},
     body : {"ok"}, sid : {""}, challenge : {""}, text : Texts,
     list : {<< >>}]

Responses(target) ==
    IF target = "session" THEN LoginResponses ELSE PlainResponses

---------------------------------------------------------------------------
(* Session *)

HasSession == Len(session) = 1

S == session[1]

\* the session without its sid set
NewSessionZero == [Sid |-> "", Challenge |-> "", Expires |-> ZeroTime]

NewSession == [Sid |-> DefaultSid, Challenge |-> "", Expires |-> ZeroTime]

\* the expiry cleared together with the sid
CloseAndReset(s) == [s EXCEPT !.Sid = DefaultSid, !.Expires = ZeroTime]

\* the sid cleared instead of set to the sentinel
CloseZero(s) == [s EXCEPT !.Sid = ""]

Close(s) == [s EXCEPT !.Sid = DefaultSid]

IsExpired(s, t) == s.Expires < t

\* the condition of Refresh without its test for an expiry that was never set
ExpiredAlsoUnset(s, t) == IsExpired(s, t)

\* the condition of Refresh
Expired(s, t) == IsExpired(s, t) /\ s.Expires # ZeroTime

\* the expiry left as it is until the exchange has succeeded
ExtendDeferred(s, t) == s

\* the window added to the old expiry instead of to the current time
ExtendFromExpiry(s, t) == [s EXCEPT !.Expires = @ + DefaultExpires]

\* the assignment of Refresh
Extend(s, t) == [s EXCEPT !.Expires = t + DefaultExpires]

---------------------------------------------------------------------------
(* Client *)

NoSid == "-"

\* a URL is a host, the segments of its path and its query parameters, each
\* a pair of a key and a value; a value is a sequence of characters
defaultBaseURL == [host |-> "fritz.box", dir |-> << >>]

\* values the user may give to Client.BaseURL
BaseURLs == {defaultBaseURL, [host |-> "192.168.178.1", dir |-> <<"box">>]}

\* url.Parse of "login_sid.lua"
LoginRef == [abs |-> FALSE, segs |-> <<"login_sid.lua">>, query |-> {}]

\* url.Parse of "/test"
TestRef == [abs |-> TRUE, segs |-> <<"test">>, query |-> {}]

\* url.Parse of "status?sid=abc&page=1"
QueryRef ==
    [abs |-> FALSE, segs |-> <<"status">>,
     query |-> {<<"sid", <<"abc">>>>, <<"page", <<"1">>>>}]

Refs == {LoginRef, TestRef, QueryRef}

\* url.Values given as data: << >> when nil
NoData == << >>

TestForm == {<<"test", <<"test">>>>}

CredForm(user, cr) == {<<"username", user>>, <<"response", cr>>}

Forms == {TestForm, CredForm(<<"a", " ", "b">>, <<"c", "&", "d">>), {}}

\* the keys in use, in the order of sort.Strings
KeyOrder ==
    <<"ain", "page", "param", "response", "sid", "switchcmd", "test", "username">>

\* url.QueryEscape of one character
EscapeChar(c) ==
    CASE c = " " -> <<"+">>
      [] c = "&" -> <<"%", "2", "6">>
      [] c = "=" -> <<"%", "3", "D">>
      [] c = "\t" -> <<"%", "0", "9">>
      [] OTHER -> <<c>>

RECURSIVE QueryEscape(_)
QueryEscape(v) ==
    IF v = << >> THEN << >> ELSE EscapeChar(Head(v)) \o QueryEscape(Tail(v))

\* url.Values.Encode: key=value joined by &, sorted by key
RECURSIVE EncodeFrom(_, _)
EncodeFrom(data, i) ==
    IF i > Len(KeyOrder) THEN << >>
    ELSE LET k == KeyOrder[i]
             vs == {p \in data : p[1] = k}
             rest == EncodeFrom(data, i + 1)
         IN  IF vs = {} THEN rest
             ELSE LET p == CHOOSE q \in vs : TRUE
                      here == <<k, "=">> \o QueryEscape(p[2])
                  IN  IF rest = << >> THEN here ELSE here \o <<"&">> \o rest

Encode(data) == EncodeFrom(data, 1)

\* url.Values.Set
SetValue(query, k, v) == {p \in query : p[1] # k} \cup {<<k, v>>}

\* URL.ResolveReference
ResolveReference(base, ref) ==
    [host |-> base.host,
     path |-> IF ref.abs THEN ref.segs ELSE base.dir \o ref.segs,
     query |-> ref.query]

NoBody == [has |-> FALSE, str |-> << >>]

NoReq == [method |-> "", host |-> "", path |-> << >>, query |-> {}, body |-> NoBody]

\* the sid sent only once the session holds a sid of the gateway
NewRequestSidOnceAuthed(base, sess, method, ref, data) ==
    LET u == ResolveReference(base, ref)
    IN  [method |-> method, host |-> u.host, path |-> u.path,
         query |-> IF Len(sess) = 1 /\ sess[1].Sid # DefaultSid
                   THEN SetValue(u.query, "sid", <<sess[1].Sid>>)
                   ELSE u.query,
         body |-> IF Len(data) = 1 THEN [has |-> TRUE, str |-> Encode(data[1])]
                  ELSE NoBody]

\* Client.NewRequest
NewRequest(base, sess, method, ref, data) ==
    LET u == ResolveReference(base, ref)
    IN  [method |-> method, host |-> u.host, path |-> u.path,
         query |-> IF Len(sess) = 1
                   THEN SetValue(u.query, "sid", <<sess[1].Sid>>)
                   ELSE u.query,
         body |-> IF Len(data) = 1 THEN [has |-> TRUE, str |-> Encode(data[1])]
                  ELSE NoBody]

\* strings the user may give as urlStr
UrlStrs == {"/test", "login_sid.lua", "status?sid=abc&page=1", "%"}

ErrMalformedURL == "parse: invalid URL escape"

NoRef == [abs |-> FALSE, segs |-> << >>, query |-> {}]

\* url.Parse, line 68: "%" opens an escape that has no digits
Parse(urlStr) ==
    CASE urlStr = "/test" -> [url |-> TestRef, err |-> Nil]
      [] urlStr = "login_sid.lua" -> [url |-> LoginRef, err |-> Nil]
      [] urlStr = "status?sid=abc&page=1" -> [url |-> QueryRef, err |-> Nil]
      [] OTHER -> [url |-> NoRef, err |-> ErrMalformedURL]

\* strings the user may give as method
Methods == {"GET", "POST", "bad method"}

\* http.NewRequest accepts a method that is a token: it holds no space
validMethod(method) == method \in {"GET", "POST"}

\* Client.NewRequest, lines 66-92, with its two ways out other than the
\* request: the error of url.Parse, and the nil request http.NewRequest
\* returns with its error, whose Header line 86 reads before line 88 looks
\* at the error
NewRequestResult(base, sess, method, urlStr, data) ==
    LET rel == Parse(urlStr)
    IN  IF rel.err # Nil THEN [req |-> NoReq, err |-> rel.err]
        ELSE IF ~validMethod(method) THEN [req |-> NoReq, err |-> Panic]
        ELSE [req |-> NewRequest(base, sess, method, rel.url, data), err |-> Nil]

StatusRejected(c) == 200 < c /\ c > 299

\* the decoder fills the target's fields up to the place where it fails
Stores(r) == r.body \in {"ok", "badtail"}

Recognized(r) == r.ctype \in {"text/xml", "application/json"}

\* what Do's decode step returns for a target that is no io.Writer
DecodeErr(r) == IF Recognized(r) /\ r.body # "ok" THEN ErrDecode ELSE Nil

\* Do, lines 104-132, on a response: the error Do returns
DoErr(r, target) ==
    IF r.neterr THEN ErrTransport
    ELSE IF StatusRejected(r.status) THEN ErrWrongStatus
    ELSE IF target \in {"session", "struct"} THEN DecodeErr(r)
    ELSE Nil

\* Do, lines 104-132, decoding into the session
DecodeSession(s, r) ==
    IF ~r.neterr /\ ~StatusRejected(r.status) /\ Recognized(r) /\ Stores(r)
    THEN [s EXCEPT !.Sid = r.sid, !.Challenge = r.challenge]
    ELSE s

\* the content type looked at before the target is tested for io.Writer
FilledTypeFirst(r, target) ==
    IF r.neterr \/ StatusRejected(r.status) \/ target = "nil" THEN "none"
    ELSE IF Recognized(r) /\ Stores(r) THEN r.ctype
    ELSE IF target = "writer" THEN "raw"
    ELSE "none"

\* Do, lines 117-130, for a target of the caller: how it was filled
Filled(r, target) ==
    IF r.neterr \/ StatusRejected(r.status) \/ target = "nil" THEN "none"
    ELSE IF target = "writer" THEN "raw"
    ELSE IF Recognized(r) /\ Stores(r) THEN r.ctype
    ELSE "none"

---------------------------------------------------------------------------
(* The response to the challenge *)

\* the password given to Auth: "\344bc", as code points
Password == <<228, 98, 99>>

\* the code points of a challenge of the gateway
Runes(challenge) ==
    IF challenge = "1234567z" THEN <<49, 50, 51, 52, 53, 54, 55, 122>> ELSE << >>

\* code points texts are made of: b, U+00FF, U+0100, the euro sign and U+1F600
CodePoints == {98, 255, 256, 8364, 128512}

MaxSecret == 3

\* secrets given to computeResponse
Secrets == UNION {[1..n -> CodePoints] : n \in 0..MaxSecret}

\* challenges given to computeResponse
ChallengeRunes == {Runes("1234567z"), <<8364>>}

\* utf16.Encode of one code point: itself, or a surrogate pair
EncodeRune(r) ==
    IF r < 65536 THEN <<r>>
    ELSE <<55296 + ((r - 65536) \div 1024), 56320 + ((r - 65536) % 1024)>>

\* utf16.Encode
RECURSIVE utf16Encode(_)
utf16Encode(rs) ==
    IF rs = << >> THEN << >> ELSE EncodeRune(Head(rs)) \o utf16Encode(Tail(rs))

\* one dot per character above 255, before the encoding
DotsPerCharacter(rs) == [i \in DOMAIN rs |-> IF rs[i] > 255 THEN 46 ELSE rs[i]]

\* computeResponse, lines 189-196: the code units that are hashed
Hashed(rs) ==
    LET chars == utf16Encode(rs)
    IN  [i \in DOMAIN chars |-> IF chars[i] > 255 THEN 46 ELSE chars[i]]

\* md5 of the code units written in little-endian order, printed by %x: 32
\* hex digits that stand for the input, no two inputs sharing a digest
MD5Hex(units) == [len |-> 2 * 16, of |-> units]

NoResponse == [challenge |-> << >>, digest |-> MD5Hex(<< >>)]

\* fmt.Sprintf("%s-%s", challenge, secret)
Combined(challenge, secret) == challenge \o <<45>> \o secret

computeResponse(challenge, secret) ==
    [challenge |-> challenge, digest |-> MD5Hex(Hashed(Combined(challenge, secret)))]

\* the response as the value of the form: the challenge, a dash, the digest
ResponseText(challenge, cr) ==
    IF cr.challenge = Runes(challenge) THEN <<challenge, "-", "md5">> ELSE << >>

---------------------------------------------------------------------------
(* Devices *)

ErrNotConnected == "device is not connected"

ErrLocked == "device is locked; please unlock device via gui"

ErrUnsupported == "device does not support the operation"

ErrRange == "temperature needs to be between 8 and 28"

ErrDeviceOff == "device is off"

ErrMismatch == "new temperature does not match desired temperature"

ErrSyntax == "strconv: invalid syntax"

\* identifiers as the gateway renders them, character by character
Idents == {<<"0", "8", " ", "1">>, <<"1", "2">>, <<" ", "1", "\t", "2">>}

\* function bit masks over the bits the operations test
Masks == {a + b + c + e : a \in {0, 2^6}, b \in {0, 2^7}, c \in {0, 2^8}, e \in {0, 2^9}}

Devices ==
    [Identifier : Idents, Connected : BOOLEAN, Lock : BOOLEAN,
     FunctionBitMask : Masks]

NoDev == [Identifier |-> << >>, Connected |-> FALSE, Lock |-> FALSE,
          FunctionBitMask |-> 0]

\* temperatures given to SetSollTemperature, in eighths of a degree: 7.75, 8,
\* 24, 24.125, 24.25, 24.375, 24.75, 28 and 28.25 degrees
Temps == {62, 64, 192, 193, 194, 195, 198, 224, 226}

\* mask & (1 << n) != 0
Bit(mask, n) == (mask \div 2^n) % 2 = 1

IsConnected(d) == d.Connected

IsLocked(d) == d.Lock

IsThermostat(d) == Bit(d.FunctionBitMask, 6)

IsSocket(d) == Bit(d.FunctionBitMask, 9)

HasTemperature(d) == Bit(d.FunctionBitMask, 8)

HasEnergy(d) == Bit(d.FunctionBitMask, 7)

\* every white space character removed
cleanAinAllSpace(str) == SelectSeq(str, LAMBDA c : c \notin {" ", "\n", "\t", "\r"})

cleanAin(str) == SelectSeq(str, LAMBDA c : c # " ")

\* the lock tested before the connection
precheckLockFirst(d, lock) ==
    IF IsLocked(d) /\ lock THEN ErrLocked
    ELSE IF ~IsConnected(d) THEN ErrNotConnected
    ELSE Nil

precheck(d, lock) ==
    IF ~IsConnected(d) THEN ErrNotConnected
    ELSE IF IsLocked(d) /\ lock THEN ErrLocked
    ELSE Nil

devicePath == [abs |-> TRUE, segs |-> <<"webservices", "homeautoswitch.lua">>,
               query |-> {}]

commandURL(cmd, cmds) ==
    [devicePath EXCEPT !.query = @ \cup {<<"switchcmd", <<cmd>>>>} \cup cmds]

Ain(d) == {<<"ain", cleanAin(d.Identifier)>>}

Param(v) == {<<"param", v>>}

IsSpace(c) == c \in {" ", "\n", "\t", "\r"}

RECURSIVE TrimLeft(_)
TrimLeft(str) ==
    IF str # << >> /\ IsSpace(Head(str)) THEN TrimLeft(Tail(str)) ELSE str

RECURSIVE TrimRight(_)
TrimRight(str) ==
    IF str # << >> /\ IsSpace(str[Len(str)])
    THEN TrimRight(SubSeq(str, 1, Len(str) - 1))
    ELSE str

\* strings.TrimSpace
TrimSpace(str) == TrimRight(TrimLeft(str))

Digits == <<"0", "1", "2", "3", "4", "5", "6", "7", "8", "9">>

IsDigit(c) == \E i \in DOMAIN Digits : Digits[i] = c

DigitVal(c) == (CHOOSE i \in DOMAIN Digits : Digits[i] = c) - 1

RECURSIVE Value(_)
Value(ds) ==
    IF ds = << >> THEN 0
    ELSE 10 * Value(SubSeq(ds, 1, Len(ds) - 1)) + DigitVal(ds[Len(ds)])

\* strconv.ParseInt(str, 10, 64), for texts far below the 64 bits
ParseInt(str) ==
    LET signed == str # << >> /\ Head(str) \in {"+", "-"}
        ds == IF signed THEN Tail(str) ELSE str
    IN  IF ds = << >> \/ \E i \in DOMAIN ds : ~IsDigit(ds[i])
        THEN [err |-> ErrSyntax, n |-> 0]
        ELSE [err |-> Nil,
              n |-> IF signed /\ Head(str) = "-" THEN 0 - Value(ds) ELSE Value(ds)]

\* strconv.ParseBool
ParseBool(str) ==
    IF str \in {<<"1">>, <<"t">>, <<"T">>, <<"T", "R", "U", "E">>,
                <<"t", "r", "u", "e">>, <<"T", "r", "u", "e">>}
    THEN [err |-> Nil, b |-> TRUE]
    ELSE IF str \in {<<"0">>, <<"f">>, <<"F">>, <<"F", "A", "L", "S", "E">>,
                     <<"f", "a", "l", "s", "e">>, <<"F", "a", "l", "s", "e">>}
    THEN [err |-> Nil, b |-> FALSE]
    ELSE [err |-> ErrSyntax, b |-> FALSE]

RECURSIVE Decimal(_)
Decimal(n) ==
    IF n < 10 THEN <<Digits[n + 1]>> ELSE Decimal(n \div 10) \o <<Digits[(n % 10) + 1]>>

\* the format rounding a half upwards
FormatParamHalfUp(q) ==
    LET n == (q + 2) \div 4
    IN  IF n < 10 THEN <<" ">> \o Decimal(n) ELSE Decimal(n)

\* fmt.Sprintf("%2.0f", temp*2) for a temperature of q eighths of a degree:
\* the nearest integer, the even one of two equally near, at least two wide
FormatParam(q) ==
    LET h == q \div 4
        r == q % 4
        n == IF r < 2 \/ (r = 2 /\ h % 2 = 0) THEN h ELSE h + 1
    IN  IF n < 10 THEN <<" ">> \o Decimal(n) ELSE Decimal(n)

NoOut == [b |-> FALSE, n |-> 0, d |-> 1]

NoPlan == [err |-> Nil, ref |-> devicePath, target |-> "nil"]

Fail(err) == [NoPlan EXCEPT !.err = err]

Command(ref, target) == [NoPlan EXCEPT !.ref = ref, !.target = target]

\* the device operations up to the request: the error returned before any
\* request is made, or the command URL and the target given to Do

\* TurnOn testing for a thermostat before it tests for a socket
TurnOnThermostatFirst(d) ==
    IF precheck(d, TRUE) # Nil THEN Fail(precheck(d, TRUE))
    ELSE IF IsThermostat(d)
    THEN Command(commandURL("sethkrtsoll", Ain(d) \cup Param(<<"2", "5", "4">>)), "nil")
    ELSE IF IsSocket(d) THEN Command(commandURL("setswitchon", Ain(d)), "nil")
    ELSE Fail(Panic)

\* TurnOn, lines 701-724
TurnOnRequest(d) ==
    IF precheck(d, TRUE) # Nil THEN Fail(precheck(d, TRUE))
    ELSE IF IsSocket(d) THEN Command(commandURL("setswitchon", Ain(d)), "nil")
    ELSE IF IsThermostat(d)
    THEN Command(commandURL("sethkrtsoll", Ain(d) \cup Param(<<"2", "5", "4">>)), "nil")
    ELSE Fail(Panic)

\* TurnOff, lines 736-758
TurnOffRequest(d) ==
    IF precheck(d, TRUE) # Nil THEN Fail(precheck(d, TRUE))
    ELSE IF IsSocket(d) THEN Command(commandURL("setswitchoff", Ain(d)), "writer")
    ELSE IF IsThermostat(d)
    THEN Command(commandURL("sethkrtsoll", Ain(d) \cup Param(<<"2", "5", "3">>)), "writer")
    ELSE Fail(Panic)

\* Toggle without its test for a socket
ToggleUngated(d) ==
    IF precheck(d, TRUE) # Nil THEN Fail(precheck(d, TRUE))
    ELSE Command(commandURL("setswitchtoggle", Ain(d)), "nil")

\* Toggle, lines 776-789
ToggleRequest(d) ==
    IF precheck(d, TRUE) # Nil THEN Fail(precheck(d, TRUE))
    ELSE IF ~IsSocket(d) THEN Fail(ErrUnsupported)
    ELSE Command(commandURL("setswitchtoggle", Ain(d)), "nil")

\* GetPower, lines 801-814
GetPowerRequest(d) ==
    IF precheck(d, FALSE) # Nil THEN Fail(precheck(d, FALSE))
    ELSE IF ~HasEnergy(d) THEN Fail(ErrUnsupported)
    ELSE Command(commandURL("getswitchpower", Ain(d)), "writer")

\* GetEnergy, lines 832-845
GetEnergyRequest(d) ==
    IF precheck(d, FALSE) # Nil THEN Fail(precheck(d, FALSE))
    ELSE IF ~HasEnergy(d) THEN Fail(ErrUnsupported)
    ELSE Command(commandURL("getswitchenergy", Ain(d)), "writer")

\* GetTemperature, lines 863-875
GetTemperatureRequest(d) ==
    IF precheck(d, FALSE) # Nil THEN Fail(precheck(d, FALSE))
    ELSE IF ~HasTemperature(d) THEN Fail(ErrUnsupported)
    ELSE Command(commandURL("gettemperature", Ain(d)), "writer")

\* GetSollTemperature, lines 894-907
GetSollTemperatureRequest(d) ==
    IF ~IsThermostat(d) THEN Fail(ErrUnsupported)
    ELSE IF precheck(d, FALSE) # Nil THEN Fail(precheck(d, FALSE))
    ELSE Command(commandURL("gethkrtsoll", Ain(d)), "writer")

\* SetSollTemperature refusing the two bounds as well
SetSollTemperatureExclusive(d, q) ==
    IF precheck(d, TRUE) # Nil THEN Fail(precheck(d, TRUE))
    ELSE IF ~IsThermostat(d) THEN Fail(ErrUnsupported)
    ELSE IF q <= 8 * 8 \/ q >= 28 * 8 THEN Fail(ErrRange)
    ELSE Command(commandURL("sethkrtsoll", Ain(d) \cup Param(FormatParam(q))), "writer")

\* SetSollTemperature, lines 929-947, for a temperature of q eighths of a degree
SetSollTemperatureRequest(d, q) ==
    IF precheck(d, TRUE) # Nil THEN Fail(precheck(d, TRUE))
    ELSE IF ~IsThermostat(d) THEN Fail(ErrUnsupported)
    ELSE IF q < 8 * 8 \/ q > 28 * 8 THEN Fail(ErrRange)
    ELSE Command(commandURL("sethkrtsoll", Ain(d) \cup Param(FormatParam(q))), "writer")

\* the device operations after Do has returned no error: buf is what Do
\* wrote to the buffer

Result(err, out) == [err |-> err, out |-> out]

Bool(b) == [NoOut EXCEPT !.b = b]

Ratio(n, d) == [NoOut EXCEPT !.n = n, !.d = d]

\* TurnOn, line 731; Toggle, line 796
Switched(buf) == Result(Nil, Bool(TRUE))

\* TurnOff decoding every device by ParseBool
TurnOffParsed(d, buf) ==
    LET p == ParseBool(TrimSpace(buf)) IN Result(p.err, Bool(p.b))

\* TurnOff, lines 766-770
TurnOffResult(d, buf) ==
    IF IsThermostat(d) THEN Result(Nil, Bool(TrimSpace(buf) = <<"2", "5", "3">>))
    ELSE LET p == ParseBool(TrimSpace(buf)) IN Result(p.err, Bool(p.b))

\* GetPower, lines 819-827
GetPowerResult(buf) ==
    LET p == ParseInt(TrimSpace(buf)) IN Result(p.err, Ratio(p.n, 1))

\* GetEnergy, lines 850-858
GetEnergyResult(buf) ==
    LET p == ParseInt(TrimSpace(buf)) IN Result(Nil, Ratio(p.n, 1))

\* GetTemperature, lines 881-889
GetTemperatureResult(buf) ==
    LET p == ParseInt(TrimSpace(buf))
    IN  IF p.err # Nil THEN Result(p.err, NoOut) ELSE Result(Nil, Ratio(p.n, 10))

\* GetSollTemperature without its test for the two values that mean off
GetSollTemperatureNoOff(buf) ==
    LET p == ParseInt(TrimSpace(buf))
    IN  IF p.err # Nil THEN Result(p.err, NoOut) ELSE Result(Nil, Ratio(p.n, 2))

\* GetSollTemperature, lines 912-924
GetSollTemperatureResult(buf) ==
    LET p == ParseInt(TrimSpace(buf))
    IN  IF p.err # Nil THEN Result(p.err, NoOut)
        ELSE IF p.n = 253 \/ p.n = 254 THEN Result(ErrDeviceOff, NoOut)
        ELSE Result(Nil, Ratio(p.n, 2))

\* SetSollTemperature, lines 955-958
SetSollTemperatureResult(q, buf) ==
    IF TrimSpace(buf) # FormatParam(q) THEN Result(ErrMismatch, NoOut)
    ELSE Result(Nil, NoOut)

DeviceResult(op, d, q, buf) ==
    CASE op = "TurnOff" -> TurnOffResult(d, buf)
      [] op = "GetPower" -> GetPowerResult(buf)
      [] op = "GetEnergy" -> GetEnergyResult(buf)
      [] op = "GetTemperature" -> GetTemperatureResult(buf)
      [] op = "GetSollTemperature" -> GetSollTemperatureResult(buf)
      [] op = "SetSollTemperature" -> SetSollTemperatureResult(q, buf)
      [] OTHER -> Switched(buf)

\* devices the gateway lists: two whose identifiers differ in their spaces
\* only, and a third
ListedA ==
    [Identifier |-> <<"0", "8", " ", "1">>, Connected |-> TRUE, Lock |-> FALSE,
     FunctionBitMask |-> 2^9]

ListedB ==
    [Identifier |-> <<"0", " ", "8", "1">>, Connected |-> FALSE, Lock |-> FALSE,
     FunctionBitMask |-> 2^6]

ListedC ==
    [Identifier |-> <<"1", "2">>, Connected |-> TRUE, Lock |-> TRUE,
     FunctionBitMask |-> 2^7]

\* device lists of getdevicelistinfos
Lists ==
    {<< >>, <<ListedC>>, <<ListedA, ListedB>>, <<ListedB, ListedA>>,
     <<ListedC, ListedA>>}

\* answers of homeautoswitch.lua to getdevicelistinfos
ListResponses ==
    {NetErr} \cup
    [neterr : {FALSE}, status : StatusCodes, ctype : ContentTypes,
     body : Bodies, sid : {""}, challenge : {""}, text : {<< >>},
     list : Lists]

\* identifiers asked of Get
Ains == {<<"0", "8", "1">>, <<"0", "8", " ", "1">>, <<"1", "2">>, <<"9">>}

ErrNotFound == "device could not be found"

\* Do, lines 117-130, decoding into the deviceList of List: the decoder
\* appends the devices it has read before it fails
DecodeList(r) ==
    IF r.neterr \/ StatusRejected(r.status) \/ ~Recognized(r) THEN << >>
    ELSE IF r.body = "ok" THEN r.list
    ELSE IF r.body = "badtail" /\ r.list # << >> THEN <<Head(r.list)>>
    ELSE << >>

\* List, lines 664-667: what List returns when Do has returned err
ListResult(r, err) == IF err # Nil THEN << >> ELSE DecodeList(r)

\* the places of the list whose device Get takes for ain
Matches(list, ain) == {i \in DOMAIN list : cleanAin(list[i].Identifier) = ain}

\* Get comparing the cleaned form of ain
GetCleaned(list, ain) ==
    LET ms == Matches(list, cleanAin(ain))
    IN  IF ms = {} THEN [err |-> ErrNotFound, dev |-> NoDev]
        ELSE [err |-> Nil, dev |-> list[CHOOSE i \in ms : \A j \in ms : i <= j]]

\* Get, lines 676-681
GetResult(list, ain) ==
    LET ms == Matches(list, ain)
    IN  IF ms = {} THEN [err |-> ErrNotFound, dev |-> NoDev]
        ELSE [err |-> Nil, dev |-> list[CHOOSE i \in ms : \A j \in ms : i <= j]]

---------------------------------------------------------------------------
(* A caller's frame *)

NoPre == [has |-> FALSE, Sid |-> NoSid, Expires |-> ZeroTime, at |-> 0]

Snapshot(sess) ==
    [has |-> Len(sess) = 1,
     Sid |-> IF Len(sess) = 1 THEN sess[1].Sid ELSE NoSid,
     Expires |-> IF Len(sess) = 1 THEN sess[1].Expires ELSE ZeroTime,
     at |-> now]

Idle ==
    [pc |-> "idle", op |-> "none", fn |-> "none", ctx |-> "none",
     chk |-> FALSE, req |-> NoReq, built |-> NoReq, target |-> "nil",
     err |-> Nil, val |-> FALSE, pre |-> NoPre, resp |-> NoResp,
     filled |-> "none", rat |-> 0, trace |-> << >>,
     base |-> defaultBaseURL, ref |-> LoginRef, data |-> NoData,
     method |-> "GET", url |-> "login_sid.lua",
     dev |-> NoDev, temp |-> 0, out |-> NoOut,
     ain |-> << >>, listed |-> << >>, found |-> NoDev,
     challenge |-> << >>, secret |-> << >>, cr |-> NoResponse]

\* a call of the public operation op starts
Begin(f, op) == [Idle EXCEPT !.built = f.built, !.op = op, !.pre = Snapshot(session)]

\* the call returns err
Ret(f, err) == [f EXCEPT !.pc = "done", !.err = err]

\* Refresh, line 174: the condition is evaluated
EnterRefresh(f, sess, ctx) ==
    [f EXCEPT !.pc = "RefreshApply", !.ctx = ctx, !.chk = Expired(sess[1], now),
              !.trace = Append(@, "Refresh")]

\* Do giving the request the sid the session has now
EnterDoFreshSid(f, sess, fn, req, target) ==
    LET q == IF Len(sess) = 1
             THEN [req EXCEPT !.query = SetValue(@, "sid", <<sess[1].Sid>>)]
             ELSE req
        g == [f EXCEPT !.fn = fn, !.req = q, !.target = target, !.resp = NoResp]
    IN  IF Len(sess) = 1 THEN EnterRefresh(g, sess, "Do")
        ELSE [g EXCEPT !.pc = "Exchange"]

\* Do, lines 97-102
EnterDo(f, sess, fn, req, target) ==
    LET g == [f EXCEPT !.fn = fn, !.req = req, !.target = target, !.resp = NoResp]
    IN  IF Len(sess) = 1 THEN EnterRefresh(g, sess, "Do")
        ELSE [g EXCEPT !.pc = "Exchange"]

\* List, lines 654-664
EnterList(f, sess) ==
    EnterDo(f, sess, "List",
            NewRequest(defaultBaseURL, sess, "GET",
                       commandURL("getdevicelistinfos", {}), NoData),
            "struct")

\* a device operation on d: its checks, then NewRequest and Do
EnterDevice(f, sess, d, q, plan) ==
    LET g == [f EXCEPT !.dev = d, !.temp = q]
    IN  IF plan.err # Nil THEN Ret(g, plan.err)
        ELSE EnterDo(g, sess, "Device",
                     NewRequest(defaultBaseURL, sess, "GET", plan.ref, NoData),
                     plan.target)

\* the user name given to Auth
Username == <<"u">>

\* Session.Open, lines 118-124
EnterOpen(f, sess) ==
    EnterDo([f EXCEPT !.trace = Append(@, "Open")], sess, "Open",
            NewRequest(defaultBaseURL, sess, "GET", LoginRef, NoData), "session")

\* Session.Auth, lines 134-148
EnterAuth(f, sess) ==
    EnterDo([f EXCEPT !.trace = Append(@, "Auth")], sess, "Auth",
            NewRequest(defaultBaseURL, sess, "POST", LoginRef,
                       <<CredForm(Username,
                                  ResponseText(sess[1].Challenge,
                                      computeResponse(Runes(sess[1].Challenge),
                                                      Password)))>>),
            "session")

\* Client.Auth going on to Session.Auth whatever Open returned
AfterOpenIgnored(f, sess, err) ==
    LET g == IF err # Nil THEN [f EXCEPT !.trace = Append(@, "OpenErr")] ELSE f
    IN  IF f.op = "ClientAuth" THEN EnterAuth(g, sess) ELSE Ret(g, err)

\* Session.Open, lines 124-129, and Client.Auth, lines 146-150: Do has
\* returned err to Open
AfterOpen(f, sess, err) ==
    IF err # Nil THEN Ret([f EXCEPT !.trace = Append(@, "OpenErr")], err)
    ELSE IF f.op = "ClientAuth" THEN EnterAuth(f, sess)
    ELSE Ret(f, Nil)

\* Auth without its test of the sid the gateway returned
AfterAuthUnchecked(f, sess, err) ==
    IF err # Nil THEN Ret(f, err) ELSE EnterRefresh(f, sess, "Auth")

\* Session.Auth, lines 148-159: Do has returned err to Auth
AfterAuth(f, sess, err) ==
    IF err # Nil THEN Ret(f, err)
    ELSE IF sess[1].Sid = DefaultSid THEN Ret(f, ErrInvalidCred)
    ELSE EnterRefresh(f, sess, "Auth")

\* a failed exchange tried once more
AfterDeviceRetry(f, err) ==
    IF err # Nil /\ Len(SelectSeq(f.trace, LAMBDA e : e = "HTTP")) < 2
    THEN [f EXCEPT !.pc = "Exchange"]
    ELSE LET r == DeviceResult(f.op, f.dev, f.temp, f.resp.text)
         IN  Ret([f EXCEPT !.out = r.out], IF err # Nil THEN err ELSE r.err)

\* a device operation: Do has returned err
AfterDevice(f, err) ==
    IF err # Nil THEN Ret(f, err)
    ELSE LET r == DeviceResult(f.op, f.dev, f.temp, f.resp.text)
         IN  Ret([f EXCEPT !.out = r.out], r.err)

\* List, lines 664-667, and Get, lines 672-681: Do has returned err to List
AfterList(f, err) ==
    LET list == ListResult(f.resp, err)
        g == [f EXCEPT !.listed = list]
    IN  IF err # Nil \/ f.op = "List" THEN Ret(g, err)
        ELSE LET r == GetResult(list, f.ain)
             IN  Ret([g EXCEPT !.found = r.dev], r.err)

\* Do has returned err to the function that called it
AfterDo(f, sess, err) ==
    CASE f.fn = "Open" -> AfterOpen(f, sess, err)
      [] f.fn = "Auth" -> AfterAuth(f, sess, err)
      [] f.fn = "Device" -> AfterDevice(f, err)
      [] f.fn = "List" -> AfterList(f, err)
      [] OTHER -> Ret(f, err)

\* Do going on to the exchange whatever Refresh returned
DoAfterRefreshIgnored(f, sess, err) == [f EXCEPT !.pc = "Exchange"]

\* Do, lines 98-104: Refresh has returned err to Do
DoAfterRefresh(f, sess, err) ==
    IF err # Nil THEN AfterDo(f, sess, err) ELSE [f EXCEPT !.pc = "Exchange"]

---------------------------------------------------------------------------
(* Initial state: NewClient(nil) *)

Init ==
    /\ now = 1
    /\ session = << >>
    /\ issued = {}
    /\ th = [t \in Threads |-> Idle]

---------------------------------------------------------------------------
(* Steps *)

\* time passes, except at the instant a call returns
Tick ==
    /\ \A t \in Threads : th[t].pc # "done"
    /\ \E n \in (now + 1)..MaxTime : now' = n
    /\ UNCHANGED <<session, issued, th>>

\* the caller takes the result of its call
Return(t) ==
    /\ th[t].pc = "done"
    /\ th' = [th EXCEPT ![t] = [Idle EXCEPT !.built = th[t].built]]
    /\ UNCHANGED <<now, session, issued>>

\* client.session = NewSession(client)
AttachSession(t) ==
    /\ th[t].pc = "idle"
    /\ ~HasSession
    /\ session' = <<NewSession>>
    /\ th' = [th EXCEPT ![t] = Ret(Begin(@, "NewSession"), Nil)]
    /\ UNCHANGED <<now, issued>>

\* Client.Auth
ClientAuth(t) ==
    /\ th[t].pc = "idle"
    /\ LET sess == IF HasSession THEN session ELSE <<NewSession>>
       IN  /\ session' = sess
           /\ th' = [th EXCEPT ![t] = EnterOpen(Begin(@, "ClientAuth"), sess)]
    /\ UNCHANGED <<now, issued>>

\* Session.Open
Open(t) ==
    /\ th[t].pc = "idle"
    /\ HasSession
    /\ th' = [th EXCEPT ![t] = EnterOpen(Begin(@, "Open"), session)]
    /\ UNCHANGED <<now, session, issued>>

\* Session.Auth
Auth(t) ==
    /\ th[t].pc = "idle"
    /\ HasSession
    /\ th' = [th EXCEPT ![t] = EnterAuth(Begin(@, "Auth"), session)]
    /\ UNCHANGED <<now, session, issued>>

\* Session.Close
SessionClose(t) ==
    /\ th[t].pc = "idle"
    /\ HasSession
    /\ session' = <<Close(S)>>
    /\ th' = [th EXCEPT ![t] = Ret(Begin(@, "Close"), Nil)]
    /\ UNCHANGED <<now, issued>>

\* Client.Close
ClientClose(t) ==
    /\ th[t].pc = "idle"
    /\ IF HasSession
       THEN /\ session' = <<Close(S)>>
            /\ th' = [th EXCEPT ![t] = Ret(Begin(@, "ClientClose"), Nil)]
       ELSE /\ session' = session
            /\ th' = [th EXCEPT ![t] = Ret(Begin(@, "ClientClose"), Panic)]
    /\ UNCHANGED <<now, issued>>

\* Session.IsExpired
CallIsExpired(t) ==
    /\ th[t].pc = "idle"
    /\ HasSession
    /\ th' = [th EXCEPT ![t] =
                 Ret([Begin(@, "IsExpired") EXCEPT !.val = IsExpired(S, now)], Nil)]
    /\ UNCHANGED <<now, session, issued>>

\* Session.Refresh: the condition
Refresh(t) ==
    /\ th[t].pc = "idle"
    /\ HasSession
    /\ th' = [th EXCEPT ![t] = EnterRefresh(Begin(@, "Refresh"), session, "Refresh")]
    /\ UNCHANGED <<now, session, issued>>

\* Session.Refresh: the branch taken
RefreshApply(t) ==
    /\ th[t].pc = "RefreshApply"
    /\ LET f == th[t]
           sess == IF f.chk THEN <<Close(S)>> ELSE <<Extend(S, now)>>
           err == IF f.chk THEN ErrExpiredSess ELSE Nil
           g == IF f.chk THEN f ELSE [f EXCEPT !.rat = now]
       IN  /\ session' = sess
           /\ th' = [th EXCEPT ![t] =
                        CASE f.ctx = "Refresh" -> Ret(g, err)
                          [] f.ctx = "Do" -> DoAfterRefresh(g, sess, err)
                          [] OTHER -> Ret(g, Nil)]
    /\ UNCHANGED <<now, issued>>

\* Client.NewRequest, called by the user of the client
BuildRequest(t) ==
    /\ th[t].pc = "idle"
    /\ th' = [th EXCEPT ![t] =
                 LET r == NewRequest(defaultBaseURL, session, "GET", TestRef, NoData)
                 IN  Ret([Begin(@, "NewRequest") EXCEPT
                             !.ref = TestRef, !.req = r, !.built = r], Nil)]
    /\ UNCHANGED <<now, session, issued>>

\* Client.Do, called by the user of the client with a request it has built
Do(t) ==
    /\ th[t].pc = "idle"
    /\ th[t].built # NoReq
    /\ \E target \in {"nil", "struct", "writer"} :
          th' = [th EXCEPT ![t] =
                    EnterDo(Begin(@, "Do"), session, "Do", @.built, target)]
    /\ UNCHANGED <<now, session, issued>>

\* Client.Do, lines 104-132: the HTTP exchange and the decoding, and what the
\* caller of Do does with the result
Exchange(t) ==
    /\ th[t].pc = "Exchange"
    /\ \E r \in CASE th[t].fn = "Device" -> DeviceResponses
                   [] th[t].fn = "List" -> ListResponses
                   [] OTHER -> Responses(th[t].target) :
          LET f == [th[t] EXCEPT !.resp = r,
                                 !.trace = Append(@, "HTTP"),
                                 !.filled = Filled(r, th[t].target)]
              login == f.target = "session"
              sess == IF login THEN <<DecodeSession(S, r)>> ELSE session
          IN  /\ session' = sess
              /\ issued' = IF login /\ ~r.neterr
                           THEN issued \cup ({r.sid} \ {DefaultSid})
                           ELSE issued
              /\ th' = [th EXCEPT ![t] = AfterDo(f, sess, DoErr(r, f.target))]
    /\ UNCHANGED now

\* Client.NewRequest with a base URL, a reference and form data of the user
CallNewRequest(t) ==
    /\ th[t].pc = "idle"
    /\ \E base \in BaseURLs, method \in Methods, urlStr \in UrlStrs,
          data \in {NoData} \cup {<<f>> : f \in Forms} :
          LET r == NewRequestResult(base, session, method, urlStr, data)
          IN  th' = [th EXCEPT ![t] =
                        Ret([Begin(@, "NewRequest") EXCEPT
                                !.base = base, !.ref = Parse(urlStr).url,
                                !.data = data, !.method = method,
                                !.url = urlStr, !.req = r.req],
                            r.err)]
    /\ UNCHANGED <<now, session, issued>>

TurnOn(t) ==
    /\ th[t].pc = "idle"
    /\ \E d \in Devices :
          th' = [th EXCEPT ![t] =
                    EnterDevice(Begin(@, "TurnOn"), session, d, 0, TurnOnRequest(d))]
    /\ UNCHANGED <<now, session, issued>>

TurnOff(t) ==
    /\ th[t].pc = "idle"
    /\ \E d \in Devices :
          th' = [th EXCEPT ![t] =
                    EnterDevice(Begin(@, "TurnOff"), session, d, 0, TurnOffRequest(d))]
    /\ UNCHANGED <<now, session, issued>>

Toggle(t) ==
    /\ th[t].pc = "idle"
    /\ \E d \in Devices :
          th' = [th EXCEPT ![t] =
                    EnterDevice(Begin(@, "Toggle"), session, d, 0, ToggleRequest(d))]
    /\ UNCHANGED <<now, session, issued>>

GetPower(t) ==
    /\ th[t].pc = "idle"
    /\ \E d \in Devices :
          th' = [th EXCEPT ![t] =
                    EnterDevice(Begin(@, "GetPower"), session, d, 0, GetPowerRequest(d))]
    /\ UNCHANGED <<now, session, issued>>

GetEnergy(t) ==
    /\ th[t].pc = "idle"
    /\ \E d \in Devices :
          th' = [th EXCEPT ![t] =
                    EnterDevice(Begin(@, "GetEnergy"), session, d, 0,
                                GetEnergyRequest(d))]
    /\ UNCHANGED <<now, session, issued>>

GetTemperature(t) ==
    /\ th[t].pc = "idle"
    /\ \E d \in Devices :
          th' = [th EXCEPT ![t] =
                    EnterDevice(Begin(@, "GetTemperature"), session, d, 0,
                                GetTemperatureRequest(d))]
    /\ UNCHANGED <<now, session, issued>>

GetSollTemperature(t) ==
    /\ th[t].pc = "idle"
    /\ \E d \in Devices :
          th' = [th EXCEPT ![t] =
                    EnterDevice(Begin(@, "GetSollTemperature"), session, d, 0,
                                GetSollTemperatureRequest(d))]
    /\ UNCHANGED <<now, session, issued>>

SetSollTemperature(t) ==
    /\ th[t].pc = "idle"
    /\ \E d \in Devices, q \in Temps :
          th' = [th EXCEPT ![t] =
                    EnterDevice(Begin(@, "SetSollTemperature"), session, d, q,
                                SetSollTemperatureRequest(d, q))]
    /\ UNCHANGED <<now, session, issued>>

List(t) ==
    /\ th[t].pc = "idle"
    /\ th' = [th EXCEPT ![t] = EnterList(Begin(@, "List"), session)]
    /\ UNCHANGED <<now, session, issued>>

Get(t) ==
    /\ th[t].pc = "idle"
    /\ \E ain \in Ains :
          th' = [th EXCEPT ![t] =
                    EnterList([Begin(@, "Get") EXCEPT !.ain = ain], session)]
    /\ UNCHANGED <<now, session, issued>>

Step(t) ==
    \/ AttachSession(t)
    \/ ClientAuth(t)
    \/ Open(t)
    \/ Auth(t)
    \/ SessionClose(t)
    \/ ClientClose(t)
    \/ CallIsExpired(t)
    \/ Refresh(t)
    \/ RefreshApply(t)
    \/ BuildRequest(t)
    \/ Do(t)
    \/ Exchange(t)
    \/ Return(t)

\* one caller
Next == Tick \/ Step(Main)

Spec == Init /\ [][Next]_vars

\* several callers share the client
\* the operations callers run against the session they share
Shared(t) ==
    \/ Refresh(t)
    \/ RefreshApply(t)
    \/ SessionClose(t)
    \/ Return(t)

\* the client after a successful Client.Auth at time 1
InitConc ==
    /\ now = 1
    /\ session = <<[Sid |-> CHOOSE s \in Tokens : TRUE,
                    Challenge |-> CHOOSE c \in Challenges : TRUE,
                    Expires |-> 1 + DefaultExpires]>>
    /\ issued = {CHOOSE s \in Tokens : TRUE}
    /\ th = [t \in Threads |-> Idle]

NextConc == Tick \/ \E t \in Threads : Shared(t)

SpecConc == InitConc /\ [][NextConc]_vars

\* the device service on a client with or without an authenticated session
DeviceStep(t) ==
    \/ TurnOn(t)
    \/ TurnOff(t)
    \/ Toggle(t)
    \/ GetPower(t)
    \/ GetEnergy(t)
    \/ GetTemperature(t)
    \/ GetSollTemperature(t)
    \/ SetSollTemperature(t)
    \/ List(t)
    \/ Get(t)
    \/ CallNewRequest(t)
    \/ ClientAuth(t)
    \/ Open(t)
    \/ Auth(t)
    \/ RefreshApply(t)
    \/ Exchange(t)
    \/ Return(t)

InitDev ==
    /\ now = 1
    /\ \/ session = << >> /\ issued = {}
       \/ InitConc
    /\ th = [t \in Threads |-> Idle]

NextDev == DeviceStep(Main)

SpecDev == InitDev /\ [][NextDev]_vars

\* computeResponse on challenges and secrets of any text
CallComputeResponse(t) ==
    /\ th[t].pc = "idle"
    /\ \E challenge \in ChallengeRunes, secret \in Secrets :
          th' = [th EXCEPT ![t] =
                    Ret([Begin(@, "computeResponse") EXCEPT
                            !.challenge = challenge, !.secret = secret,
                            !.cr = computeResponse(challenge, secret)], Nil)]
    /\ UNCHANGED <<now, session, issued>>

NextCR == CallComputeResponse(Main) \/ Return(Main)

SpecCR == Init /\ [][NextCR]_vars

---------------------------------------------------------------------------
(* Properties.  Under Spec the one caller is Main; at pc = "done" its call  *)
(* has just returned: pre is the session when the call started, now is the  *)
(* time of the return.                                                      *)

M == th[Main]

Done(op) == M.pc = "done" /\ M.op = op

\* the session the call found had an expiry set that lay before the call
WasExpired == M.pre.has /\ M.pre.Expires # ZeroTime /\ M.pre.Expires < M.pre.at

Sent == {i \in DOMAIN M.trace : M.trace[i] = "HTTP"}

\* the last response is a proper answer of login_sid.lua carrying sid
Answered(sid) ==
    /\ ~M.resp.neterr
    /\ M.resp.status \in 200..299
    /\ M.resp.ctype = "text/xml"
    /\ M.resp.body = "ok"
    /\ M.resp.sid = sid

\* C1: Session.Refresh on a session whose expiry was set and has passed sets
\* sid to the sentinel and returns ErrExpiredSess; otherwise, also with the
\* zero expiry of a session that never authenticated, it returns no error
\* and sets the expiry to the current time plus DefaultExpires.
C1_Refresh ==
    Done("Refresh") =>
        IF WasExpired
        THEN S.Sid = DefaultSid /\ M.err = ErrExpiredSess
        ELSE M.err = Nil /\ S.Expires = now + DefaultExpires

C1_Witness ==
    /\ Done("Refresh")
    /\ WasExpired
    /\ M.pre.Sid \in Tokens
    /\ M.err = ErrExpiredSess

\* C1, the other case: a session that never authenticated is refreshed
C1_WitnessFresh ==
    /\ Done("Refresh")
    /\ M.pre.Expires = ZeroTime
    /\ S.Expires = now + DefaultExpires

\* C2: with a session, Client.Do calls Refresh before the HTTP exchange, and
\* when Refresh fails Do returns its error and sends no request.
C2_RefreshBeforeExchange ==
    (M.op \in {"Do", "Open", "Auth", "ClientAuth"} /\ (M.op = "Do" => M.pre.has)) =>
        /\ \A i \in Sent : i > 1 /\ M.trace[i - 1] = "Refresh"
        /\ (M.pre.has /\ WasExpired) =>
              /\ Sent = {}
              /\ M.pc \in {"RefreshApply", "done"}
              /\ M.pc = "done" => M.err = ErrExpiredSess

C2_Witness ==
    /\ Done("Do")
    /\ WasExpired
    /\ M.err = ErrExpiredSess
    /\ M.trace = <<"Refresh">>

\* C3: whenever Session.Auth returns without error the session is
\* authenticated: its sid is a non-sentinel token the gateway returned and
\* its expiry is the current time plus DefaultExpires.
C3_AuthSuccess ==
    (Done("Auth") /\ M.err = Nil) =>
        /\ S.Sid # DefaultSid
        /\ S.Sid \in issued
        /\ S.Expires = now + DefaultExpires

\* C4: when the gateway answers the credential POST with the sentinel sid,
\* Session.Auth and Client.Auth fail with ErrInvalidCred and the session's
\* sid is the sentinel afterwards.
C4_InvalidCredentials ==
    (M.pc = "done" /\ M.op \in {"Auth", "ClientAuth"} /\ M.fn = "Auth"
       /\ Answered(DefaultSid)) =>
        M.err = ErrInvalidCred /\ S.Sid = DefaultSid

C4_Witness ==
    /\ Done("ClientAuth")
    /\ M.fn = "Auth"
    /\ Answered(DefaultSid)
    /\ M.err = ErrInvalidCred

\* C5 as stated: Client.Auth creates a session when the client has none and
\* reuses the one it has, runs Open and then Auth, does not attempt Auth when
\* Open fails and returns Open's error; after it the client has a session,
\* and on a client that had none the sid is the sentinel whenever Client.Auth
\* returned an error.
C5_Order ==
    M.op = "ClientAuth" =>
        /\ HasSession
        /\ M.trace[1] = "Open"
        /\ \A i \in DOMAIN M.trace : M.trace[i] = "Auth" => i > 1
        /\ Cardinality({i \in DOMAIN M.trace : M.trace[i] \in {"Open", "Auth"}}) <= 2
        /\ (\E i \in DOMAIN M.trace : M.trace[i] = "OpenErr") =>
              /\ \A i \in DOMAIN M.trace : M.trace[i] # "Auth"
              /\ M.pc = "done" /\ M.err # Nil
        /\ WasExpired => (M.pc = "done" => M.err = ErrExpiredSess)

C5_Original ==
    /\ C5_Order
    /\ (Done("ClientAuth") /\ ~M.pre.has /\ M.err # Nil) => S.Sid = DefaultSid

\* C5 as amended: the sid is the sentinel after a failed Client.Auth on a
\* client that had no session provided the gateway returned no non-sentinel
\* sid in a login response.
C5_ClientAuth ==
    /\ C5_Order
    /\ (Done("ClientAuth") /\ ~M.pre.has /\ M.err # Nil /\ issued = {}) =>
          S.Sid = DefaultSid

C5_Witness ==
    /\ Done("ClientAuth")
    /\ ~M.pre.has
    /\ M.err = ErrTransport
    /\ M.trace = <<"Open", "Refresh", "HTTP", "Auth", "Refresh", "HTTP">>
    /\ issued = {}
    /\ S.Sid = DefaultSid

\* C6: a request made on a session before its expiry does not fail with
\* ErrExpiredSess and moves the expiry to the time of its own Refresh plus
\* DefaultExpires; a request made after the expiry that was set has passed
\* is refused with ErrExpiredSess, leaves sid at the sentinel and does not
\* move the expiry.
C6_SlidingWindow ==
    (M.op = "Do" /\ M.pre.has /\ M.pre.Expires # ZeroTime
       /\ M.pc \in {"Exchange", "done"}) =>
        /\ M.pre.at < M.pre.Expires =>
              /\ M.err # ErrExpiredSess
              /\ M.rat >= M.pre.at
              /\ M.rat <= now
              /\ S.Expires = M.rat + DefaultExpires
        /\ M.pre.at > M.pre.Expires =>
              /\ M.pc = "done"
              /\ M.err = ErrExpiredSess
              /\ S.Sid = DefaultSid
              /\ S.Expires = M.pre.Expires

C6_Witness ==
    /\ Done("Do")
    /\ M.pre.Expires # ZeroTime
    /\ M.pre.at < M.pre.Expires
    /\ M.pre.at > 1
    /\ M.err = Nil
    /\ S.Expires > M.pre.Expires
    /\ S.Sid \in Tokens

\* C7: the check and the extension or close of Refresh are one atomic step:
\* at the instant one caller's Refresh has found the session expired and
\* closed it, no other caller stands between a check that found the session
\* alive and the extension of the expiry that follows it.
C7_Serialized ==
    \A t, u \in Threads :
        (t # u /\ th[u].pc = "done" /\ th[u].op = "Refresh"
           /\ th[u].err = ErrExpiredSess) =>
            ~(th[t].pc = "RefreshApply" /\ ~th[t].chk)

\* C8: Session.Close, and Client.Close on a client with a session, set sid to
\* the sentinel whatever the session was and change nothing else; a second
\* Close leaves the session as the first left it.
C8_Close ==
    (M.pc = "done" /\ M.op \in {"Close", "ClientClose"} /\ M.pre.has) =>
        /\ S.Sid = DefaultSid
        /\ S.Expires = M.pre.Expires
        /\ Close(S) = S

C8_Witness ==
    /\ Done("Close")
    /\ M.pre.Sid \in Tokens
    /\ S.Sid = DefaultSid

\* C9: Session.IsExpired is true exactly when the current time is at or
\* after the stored expiry.
C9_IsExpired ==
    Done("IsExpired") => (M.val <=> M.pre.at >= M.pre.Expires)

\* C10: the sid of the session is the sentinel or a non-sentinel token the
\* gateway returned in a login response.
C10_SidInvariant ==
    HasSession => S.Sid \in {DefaultSid} \cup issued

C10_Witness ==
    /\ HasSession
    /\ S.Sid \in Tokens
    /\ M.pc = "idle"

\* the call has made an exchange and the gateway has answered it
Replied == M.resp # NoResp /\ ~M.resp.neterr

\* C12: Client.Do returns an error and decodes nothing for every response
\* whose status lies outside 200..299, below 200 as well as above 299.
C12_StatusError ==
    (Done("Do") /\ Replied /\ M.resp.status \notin 200..299) =>
        M.err # Nil /\ M.filled = "none"

\* C13: for a successful response and a non-nil target, Client.Do copies the
\* body to a raw-byte sink whatever the content type; otherwise it decodes
\* text/xml as XML and application/json as JSON into the target, and with
\* neither content type it leaves the target unpopulated and returns no error.
C13_Decode ==
    (Done("Do") /\ Replied /\ M.resp.status \in 200..299 /\ M.target # "nil") =>
        /\ M.target = "writer" => M.filled = "raw" /\ M.err = Nil
        /\ (M.target = "struct" /\ M.resp.body = "ok"
              /\ M.resp.ctype \in {"text/xml", "application/json"}) =>
                 M.filled = M.resp.ctype /\ M.err = Nil
        /\ (M.target = "struct"
              /\ M.resp.ctype \notin {"text/xml", "application/json"}) =>
                 M.filled = "none" /\ M.err = Nil

C13_Witness ==
    /\ Done("Do")
    /\ Replied
    /\ M.resp.status = 200
    /\ M.target = "struct"
    /\ M.resp.ctype = "text/plain"
    /\ M.filled = "none"
    /\ M.err = Nil

\* the values of the query parameter k of the request
QueryOf(req, k) == {p[2] : p \in {x \in req.query : x[1] = k}}

\* C11: Client.NewRequest resolves the relative path against BaseURL and, if
\* and only if the client has a session, sets the query parameter sid to the
\* session's current sid on every request, the login requests made while the
\* sid is still the sentinel included; form data given becomes the body in
\* its URL-encoded form.
C11_NewRequest ==
    /\ (Done("NewRequest") /\ M.err = Nil) =>
          /\ M.req.host = M.base.host
          /\ M.req.path = IF M.ref.abs THEN M.ref.segs ELSE M.base.dir \o M.ref.segs
          /\ M.pre.has =>
                /\ QueryOf(M.req, "sid") = {<<M.pre.Sid>>}
                /\ \A p \in M.ref.query : p[1] # "sid" => p \in M.req.query
          /\ ~M.pre.has => M.req.query = M.ref.query
          /\ M.req.body.has = (M.data # NoData)
          /\ M.data = <<TestForm>> => M.req.body.str = <<"test", "=", "test">>
          /\ M.data = <<CredForm(<<"a", " ", "b">>, <<"c", "&", "d">>)>> =>
                M.req.body.str = <<"response", "=", "c", "%", "2", "6", "d", "&",
                                   "username", "=", "a", "+", "b">>
          /\ M.data = <<{}>> => M.req.body.str = << >>
    /\ (M.fn = "Open" /\ M.op = "Open") =>
          /\ M.req.path = <<"login_sid.lua">>
          /\ QueryOf(M.req, "sid") = {<<M.pre.Sid>>}
    /\ (M.fn = "Auth" /\ M.op = "Auth") =>
          /\ QueryOf(M.req, "sid") = {<<M.pre.Sid>>}
          /\ M.req.body.has
    /\ (M.fn = "Device" /\ M.req # NoReq) =>
          QueryOf(M.req, "sid") = IF M.pre.has THEN {<<M.pre.Sid>>} ELSE {}

\* a login request carries the sentinel sid
C11_Witness ==
    /\ M.op = "Open"
    /\ M.pc = "done"
    /\ M.pre.Sid = DefaultSid
    /\ QueryOf(M.req, "sid") = {<<DefaultSid>>}
    /\ Sent # {}

\* C11, the other cases: a relative reference with a sid of its own and a
\* form, on a client with a session and a base URL with a directory
C11_WitnessForm ==
    /\ Done("NewRequest")
    /\ M.err = Nil
    /\ M.pre.has
    /\ M.base.dir # << >>
    /\ ~M.ref.abs
    /\ M.ref.query # {}
    /\ M.req.path = <<"box", "status">>
    /\ M.req.body.str # << >>

\* C11, the other cases: no session, no sid
C11_WitnessNoSession ==
    /\ Done("NewRequest")
    /\ M.err = Nil
    /\ ~M.pre.has
    /\ QueryOf(M.req, "sid") = {}

\* the device operation op has returned
DeviceDone(op) == Done(op) /\ M.dev \in Devices

\* the gateway has answered the command with a success status
Accepted == Replied /\ M.resp.status \in 200..299

\* the body the gateway has returned, trimmed, is a base-10 integer
IntegerBody == ParseInt(TrimSpace(M.resp.text)).err = Nil

\* C14: a body that cannot be decoded is reported as an error, never replaced
\* by a fallback value: GetPower, GetEnergy, GetTemperature and
\* GetSollTemperature return an error when the body is not a base-10 integer.
C14_DecodeError ==
    \A op \in {"GetPower", "GetEnergy", "GetTemperature", "GetSollTemperature"} :
        (DeviceDone(op) /\ Accepted /\ ~IntegerBody) => M.err # Nil

\* C14 holds for the three operations other than GetEnergy
C14_OtherThree ==
    \A op \in {"GetPower", "GetTemperature", "GetSollTemperature"} :
        (DeviceDone(op) /\ Accepted /\ ~IntegerBody) => M.err = ErrSyntax

DeviceOps ==
    {"TurnOn", "TurnOff", "Toggle", "GetPower", "GetEnergy", "GetTemperature",
     "GetSollTemperature", "SetSollTemperature"}

\* the last exchange of the call has failed: no answer, or one Do rejects
ExchangeFailed == M.resp # NoResp /\ DoErr(M.resp, M.target) # Nil

\* C15: no request is retried: a device operation, Session.Open and
\* Session.Auth make at most one HTTP exchange per call, Client.Auth at most
\* two, a GET then a POST, and a failed exchange ends the call with its error.
C15_NoRetry ==
    /\ M.op \in DeviceOps \cup {"Open", "Auth"} => Cardinality(Sent) <= 1
    /\ M.op = "ClientAuth" =>
          /\ Cardinality(Sent) <= 2
          /\ Cardinality(Sent) = 2 => M.fn = "Auth" /\ M.req.method = "POST"
          /\ (Cardinality(Sent) = 1 /\ M.fn = "Open") => M.req.method = "GET"
    /\ ExchangeFailed => M.pc = "done" /\ M.err = DoErr(M.resp, M.target)

C15_Witness ==
    /\ DeviceDone("GetPower")
    /\ M.resp.neterr
    /\ Cardinality(Sent) = 1
    /\ M.err = ErrTransport

\* C15, Client.Auth: two exchanges, the second one failed
C15_WitnessAuth ==
    /\ Done("ClientAuth")
    /\ Cardinality(Sent) = 2
    /\ M.resp.neterr
    /\ M.err = ErrTransport

Setters == {"TurnOn", "TurnOff", "Toggle", "SetSollTemperature"}

Getters == {"GetPower", "GetEnergy", "GetTemperature", "GetSollTemperature"}

\* C16: precheck fails with the not-connected error for a device that is not
\* connected, locked or not; with the locked error for a connected, locked
\* device when requireUnlocked is true; and succeeds otherwise.  TurnOn,
\* TurnOff, Toggle and SetSollTemperature require an unlocked device, the Get
\* operations do not and work on locked devices.
C16_Precheck ==
    M.dev \in Devices =>
        /\ \A lock \in BOOLEAN :
              precheck(M.dev, lock) =
                 CASE ~M.dev.Connected -> ErrNotConnected
                   [] M.dev.Connected /\ M.dev.Lock /\ lock -> ErrLocked
                   [] OTHER -> Nil
        /\ (M.pc = "done" /\ M.op \in Setters) =>
              /\ (~M.dev.Connected) => M.err = ErrNotConnected
              /\ (M.dev.Connected /\ M.dev.Lock) => M.err = ErrLocked
              /\ (M.dev.Connected /\ ~M.dev.Lock) => M.err # ErrLocked
        /\ (M.pc = "done" /\ M.op \in Getters) =>
              /\ M.err # ErrLocked
              /\ (M.dev.Connected /\ M.dev.Lock /\ Accepted /\ IntegerBody
                    /\ ParseInt(TrimSpace(M.resp.text)).n \notin {253, 254}) =>
                    M.err = Nil

\* a setter refused on a locked device
C16_Witness ==
    /\ DeviceDone("TurnOff")
    /\ M.dev.Connected
    /\ M.dev.Lock
    /\ M.err = ErrLocked
    /\ Sent = {}

\* C16, the other cases: a getter answered for a locked device
C16_WitnessGetter ==
    /\ DeviceDone("GetPower")
    /\ M.dev.Lock
    /\ M.err = Nil
    /\ M.out.n = 48

\* C16, the other cases: not connected takes precedence over locked
C16_WitnessPrecedence ==
    /\ DeviceDone("Toggle")
    /\ ~M.dev.Connected
    /\ M.dev.Lock
    /\ M.err = ErrNotConnected

\* C17: every device operation evaluates precheck before any capability or
\* argument check and before any network call: for a device that is not
\* connected each fails with the not-connected error, whatever its
\* capability bits.
C17_PrecheckFirst ==
    (M.pc = "done" /\ M.op \in DeviceOps /\ M.dev \in Devices /\ ~M.dev.Connected) =>
        M.err = ErrNotConnected /\ Sent = {}

\* C17 holds for the seven operations other than GetSollTemperature
C17_OtherSeven ==
    (M.pc = "done" /\ M.op \in DeviceOps \ {"GetSollTemperature"}
       /\ M.dev \in Devices /\ ~M.dev.Connected) =>
        M.err = ErrNotConnected /\ Sent = {}

\* TurnOn or TurnOff has passed precheck on a device of neither kind
OtherKind ==
    /\ M.op \in {"TurnOn", "TurnOff"}
    /\ M.dev \in Devices
    /\ M.dev.Connected
    /\ ~M.dev.Lock
    /\ ~IsSocket(M.dev)
    /\ ~IsThermostat(M.dev)

\* C18: TurnOn and TurnOff on a connected, unlocked device that is neither a
\* socket nor a thermostat send no command and return success, without an
\* error and without crashing.
C18_OtherKind ==
    (M.pc = "done" /\ OtherKind) => Sent = {} /\ M.err = Nil

\* C18, what the code does: no command is sent and the call panics
C18_Panics ==
    (M.pc = "done" /\ OtherKind) => Sent = {} /\ M.err = Panic

\* the keys of the query of the request
Keys(req) == {p[1] : p \in req.query}

\* C19: TurnOn and TurnOff send setswitchon / setswitchoff with only the
\* cleaned ain to a socket, also to one that is a thermostat as well, and
\* sethkrtsoll with the cleaned ain and param 254 (on) / 253 (off) to a
\* thermostat that is no socket; exactly one command is sent per call.
C19_Dispatch ==
    (M.op \in {"TurnOn", "TurnOff"} /\ M.dev \in Devices) =>
        LET on == M.op = "TurnOn"
            d == M.dev
        IN  /\ (M.fn = "Device" /\ IsSocket(d)) =>
                  /\ M.req.path = <<"webservices", "homeautoswitch.lua">>
                  /\ QueryOf(M.req, "switchcmd") =
                        {<<IF on THEN "setswitchon" ELSE "setswitchoff">>}
                  /\ QueryOf(M.req, "ain") = {cleanAin(d.Identifier)}
                  /\ Keys(M.req) \subseteq {"switchcmd", "ain", "sid"}
            /\ (M.fn = "Device" /\ ~IsSocket(d)) =>
                  /\ IsThermostat(d)
                  /\ M.req.path = <<"webservices", "homeautoswitch.lua">>
                  /\ QueryOf(M.req, "switchcmd") = {<<"sethkrtsoll">>}
                  /\ QueryOf(M.req, "ain") = {cleanAin(d.Identifier)}
                  /\ QueryOf(M.req, "param") =
                        {IF on THEN <<"2", "5", "4">> ELSE <<"2", "5", "3">>}
                  /\ Keys(M.req) \subseteq {"switchcmd", "ain", "param", "sid"}
            /\ (M.pc = "done" /\ d.Connected /\ ~d.Lock
                  /\ (IsSocket(d) \/ IsThermostat(d)) /\ ~WasExpired) =>
                  Cardinality(Sent) = 1

\* a device that is socket and thermostat is switched on as a socket
C19_Witness ==
    /\ DeviceDone("TurnOn")
    /\ IsSocket(M.dev)
    /\ IsThermostat(M.dev)
    /\ M.dev.Identifier = <<"0", "8", " ", "1">>
    /\ QueryOf(M.req, "switchcmd") = {<<"setswitchon">>}
    /\ QueryOf(M.req, "ain") = {<<"0", "8", "1">>}
    /\ Cardinality(Sent) = 1
    /\ M.err = Nil

\* C19, the other cases: a thermostat is switched off by its setpoint
C19_WitnessThermostat ==
    /\ DeviceDone("TurnOff")
    /\ ~IsSocket(M.dev)
    /\ QueryOf(M.req, "param") = {<<"2", "5", "3">>}
    /\ M.err = Nil

\* Do has made the exchange and returned no error
DoSucceeded == M.resp # NoResp /\ DoErr(M.resp, M.target) = Nil

TrueTokens ==
    {<<"1">>, <<"t">>, <<"T">>, <<"T", "R", "U", "E">>, <<"t", "r", "u", "e">>,
     <<"T", "r", "u", "e">>}

FalseTokens ==
    {<<"0">>, <<"f">>, <<"F">>, <<"F", "A", "L", "S", "E">>,
     <<"f", "a", "l", "s", "e">>, <<"F", "a", "l", "s", "e">>}

\* C20: TurnOff returns, for a thermostat, true exactly when the trimmed body
\* equals "253" and never an error for another body; for any other device
\* the boolean the trimmed body spells, and an error when it spells none.
\* TurnOn returns true after every successful exchange, whatever the body.
C20_TurnOffResult ==
    LET str == TrimSpace(M.resp.text)
    IN  /\ (DeviceDone("TurnOff") /\ DoSucceeded) =>
              IF IsThermostat(M.dev)
              THEN M.err = Nil /\ M.out.b = (str = <<"2", "5", "3">>)
              ELSE /\ str \in TrueTokens => M.err = Nil /\ M.out.b
                   /\ str \in FalseTokens => M.err = Nil /\ ~M.out.b
                   /\ str \notin TrueTokens \cup FalseTokens => M.err # Nil
        /\ (DeviceDone("TurnOn") /\ DoSucceeded) => M.err = Nil /\ M.out.b

\* a thermostat echoes 253
C20_Witness ==
    /\ DeviceDone("TurnOff")
    /\ IsThermostat(M.dev)
    /\ ~IsSocket(M.dev)
    /\ M.resp.text = <<"2", "5", "3", "\n">>
    /\ M.out.b
    /\ M.err = Nil

\* C20, the other cases: a socket answers with no boolean
C20_WitnessSocket ==
    /\ DeviceDone("TurnOff")
    /\ ~IsThermostat(M.dev)
    /\ DoSucceeded
    /\ M.resp.text = <<"i", "n", "v", "a", "l", "\n">>
    /\ M.err = ErrSyntax

\* C20, the other cases: TurnOn ignores a body that says off
C20_WitnessTurnOn ==
    /\ DeviceDone("TurnOn")
    /\ DoSucceeded
    /\ M.resp.text = <<"0", "\n">>
    /\ M.out.b

\* the session is what it was when the call started
SessionUntouched ==
    /\ HasSession = M.pre.has
    /\ HasSession => S.Sid = M.pre.Sid /\ S.Expires = M.pre.Expires

\* the device of the call has passed precheck but lacks the bit the
\* operation needs
LacksCapability ==
    /\ M.dev \in Devices
    /\ M.dev.Connected
    /\ \/ M.op = "Toggle" /\ ~M.dev.Lock /\ ~Bit(M.dev.FunctionBitMask, 9)
       \/ M.op \in {"GetPower", "GetEnergy"} /\ ~Bit(M.dev.FunctionBitMask, 7)
       \/ M.op = "GetTemperature" /\ ~Bit(M.dev.FunctionBitMask, 8)
       \/ M.op = "GetSollTemperature" /\ ~Bit(M.dev.FunctionBitMask, 6)
       \/ M.op = "SetSollTemperature" /\ ~M.dev.Lock
             /\ ~Bit(M.dev.FunctionBitMask, 6)

\* C21: on a connected (where required unlocked) device without the needed
\* capability bit, Toggle (bit 9), GetPower and GetEnergy (bit 7),
\* GetTemperature (bit 8), GetSollTemperature and SetSollTemperature (bit 6)
\* fail with the unsupported error, make no network call and leave the
\* session's sid and expiry unchanged.
C21_CapabilityGating ==
    LacksCapability =>
        /\ M.pc = "done"
        /\ M.err = ErrUnsupported
        /\ Sent = {}
        /\ M.req = NoReq
        /\ SessionUntouched

C21_Witness ==
    /\ DeviceDone("Toggle")
    /\ LacksCapability
    /\ M.pre.has
    /\ M.pre.Sid \in Tokens
    /\ M.err = ErrUnsupported
    /\ Bit(M.dev.FunctionBitMask, 6)

\* the integer the trimmed body spells
BodyValue == ParseInt(TrimSpace(M.resp.text)).n

\* C22: GetSollTemperature on a connected thermostat fails with the
\* device-off error and returns no temperature when the integer decoded from
\* the body is 253 or 254, and returns v/2 degrees with no error for every
\* other decoded integer v.
C22_SollTemperature ==
    (DeviceDone("GetSollTemperature") /\ DoSucceeded /\ IntegerBody) =>
        IF BodyValue \in {253, 254}
        THEN M.err = ErrDeviceOff /\ M.out = NoOut
        ELSE M.err = Nil /\ M.out.d # 0 /\ 2 * M.out.n = BodyValue * M.out.d

\* 32 gives 16.0
C22_Witness ==
    /\ DeviceDone("GetSollTemperature")
    /\ DoSucceeded
    /\ M.resp.text = <<"3", "2", "\n">>
    /\ M.out.n = 16 * M.out.d
    /\ M.err = Nil

\* C22, the other case: the thermostat is off
C22_WitnessOff ==
    /\ DeviceDone("GetSollTemperature")
    /\ DoSucceeded
    /\ BodyValue = 253
    /\ M.err = ErrDeviceOff

\* SetSollTemperature has been called on a connected, unlocked thermostat
SetOnThermostat ==
    /\ M.op = "SetSollTemperature"
    /\ M.dev \in Devices
    /\ M.dev.Connected
    /\ ~M.dev.Lock
    /\ Bit(M.dev.FunctionBitMask, 6)

\* C23: SetSollTemperature on a connected, unlocked thermostat rejects every
\* temperature below 8 or above 28 degrees with the range error, without a
\* network call and without a change of the session; 8 and 28 are accepted.
C23_Range ==
    SetOnThermostat =>
        IF M.temp < 64 \/ M.temp > 224
        THEN /\ M.pc = "done"
             /\ M.err = ErrRange
             /\ Sent = {}
             /\ M.req = NoReq
             /\ SessionUntouched
        ELSE M.err # ErrRange /\ M.req # NoReq

\* 28.25 degrees are refused
C23_Witness ==
    /\ Done("SetSollTemperature")
    /\ SetOnThermostat
    /\ M.temp = 226
    /\ M.pre.has
    /\ M.err = ErrRange

\* C23, the other case: 28 degrees are sent
C23_WitnessBound ==
    /\ Done("SetSollTemperature")
    /\ SetOnThermostat
    /\ M.temp = 224
    /\ Cardinality(Sent) = 1

\* C23, the other case: 8 degrees are sent
C23_WitnessLow ==
    /\ Done("SetSollTemperature")
    /\ SetOnThermostat
    /\ M.temp = 64
    /\ QueryOf(M.req, "param") = {<<"1", "6">>}

\* SetSollTemperature has sent a temperature within the range
SetInRange == SetOnThermostat /\ M.temp >= 64 /\ M.temp <= 224 /\ M.req # NoReq

\* the number the param of the request spells
ParamValue == ParseInt(CHOOSE v \in QueryOf(M.req, "param") : TRUE).n

\* the echo of the gateway decides the result of SetSollTemperature
EchoDecides ==
    (M.pc = "done" /\ DoSucceeded) =>
        LET sent == CHOOSE v \in QueryOf(M.req, "param") : TRUE
        IN  IF TrimSpace(M.resp.text) = sent
            THEN M.err = Nil
            ELSE M.err = ErrMismatch

\* the command is sethkrtsoll with one param of decimal digits
SollCommand ==
    /\ QueryOf(M.req, "switchcmd") = {<<"sethkrtsoll">>}
    /\ Cardinality(QueryOf(M.req, "param")) = 1
    /\ \A v \in QueryOf(M.req, "param") :
          v # << >> /\ \A i \in DOMAIN v : IsDigit(v[i])

\* C24, as stated with a half rounded upwards, as round() does: the param is
\* the decimal text of round(degrees * 2) and the call succeeds exactly when
\* the trimmed echo equals the param sent.
C24_Original ==
    SetInRange =>
        /\ SollCommand
        /\ ParamValue = (M.temp + 2) \div 4
        /\ EchoDecides

\* C24: SetSollTemperature with a temperature in [8, 28] sends sethkrtsoll
\* with the decimal text of the integer nearest to degrees * 2, the even one
\* when two integers are equally near (24 gives "48", 24.25 gives "48",
\* 24.75 gives "50"); it succeeds exactly when the trimmed echo equals the
\* param sent and fails with the mismatch error for any other echo.
C24_SetSoll ==
    SetInRange =>
        /\ SollCommand
        /\ 4 * ParamValue - M.temp \in -2..2
        /\ (4 * ParamValue - M.temp \in {-2, 2}) => ParamValue % 2 = 0
        /\ EchoDecides

\* 24.25 degrees are sent as 48 and echoed
C24_Witness ==
    /\ Done("SetSollTemperature")
    /\ SetInRange
    /\ M.temp = 194
    /\ QueryOf(M.req, "param") = {<<"4", "8">>}
    /\ M.resp.text = <<" ", "4", "8", "\n">>
    /\ M.err = Nil

\* C24, the other cases: 24 degrees are sent as 48 and another echo fails
C24_WitnessMismatch ==
    /\ Done("SetSollTemperature")
    /\ SetInRange
    /\ M.temp = 192
    /\ QueryOf(M.req, "param") = {<<"4", "8">>}
    /\ DoSucceeded
    /\ M.resp.text = <<"3", "2", "\n">>
    /\ M.err = ErrMismatch

\* the ain of the command a device operation has built
SentAin == CHOOSE v \in QueryOf(M.req, "ain") : TRUE

\* a device operation has built its command
Commanded == M.fn = "Device" /\ M.req # NoReq /\ M.dev \in Devices

\* the characters of str other than those of the set ws, in their order
Without(str, ws) == SelectSeq(str, LAMBDA c : c \notin ws)

\* C25, as stated: the ain of every command URL is the identifier with all
\* whitespace characters removed, spaces, tabs and newlines alike.
C25_Original ==
    Commanded =>
        /\ QueryOf(M.req, "ain") # {}
        /\ \A i \in DOMAIN SentAin : SentAin[i] \notin {" ", "\t", "\n", "\r"}

\* C25: the ain of every command URL is the identifier with its space
\* characters removed; tabs, newlines and other whitespace stay.  Cleaning is
\* idempotent and keeps the other characters and their order.
C25_CleanAin ==
    Commanded =>
        /\ Cardinality(QueryOf(M.req, "ain")) = 1
        /\ \A i \in DOMAIN SentAin : SentAin[i] # " "
        /\ SentAin = Without(M.dev.Identifier, {" "})
        /\ Without(SentAin, {"\t", "\n", "\r"}) =
              Without(M.dev.Identifier, {" ", "\t", "\n", "\r"})
        /\ Len(SentAin) - Len(Without(SentAin, {"\t", "\n", "\r"})) =
              Len(M.dev.Identifier) - Len(Without(M.dev.Identifier, {"\t", "\n", "\r"}))
        /\ cleanAin(SentAin) = SentAin

\* an identifier with a space and a tab keeps its tab
C25_Witness ==
    /\ Commanded
    /\ M.pc = "done"
    /\ M.dev.Identifier = <<" ", "1", "\t", "2">>
    /\ SentAin = <<"1", "\t", "2">>
    /\ Cardinality(Sent) = 1

\* the first place of the list List returned whose device, cleaned of its
\* spaces, has the identifier id; 0 when there is none
FirstListed(id) ==
    LET ms == {i \in DOMAIN M.listed : Without(M.listed[i].Identifier, {" "}) = id}
    IN  IF ms = {} THEN 0 ELSE CHOOSE i \in ms : \A j \in ms : i <= j

\* Get makes one List call and hands on its error
OneListCall ==
    Done("Get") =>
        /\ Cardinality(Sent) <= 1
        /\ ~WasExpired => Cardinality(Sent) = 1
        /\ QueryOf(M.req, "switchcmd") = {<<"getdevicelistinfos">>}
        /\ ExchangeFailed => M.err = DoErr(M.resp, M.target) /\ M.found = NoDev

\* C26: Get makes one List call and returns the first listed device whose
\* cleaned identifier matches the requested identifier, itself taken in its
\* cleaned form, so that an identifier given with spaces finds the same
\* device; it fails with the not-found error when no listed device matches
\* and hands on an error of List unchanged.
C26_Get ==
    /\ OneListCall
    /\ (Done("Get") /\ DoSucceeded) =>
          LET i == FirstListed(Without(M.ain, {" "}))
          IN  IF i = 0 THEN M.err = ErrNotFound /\ M.found = NoDev
              ELSE M.err = Nil /\ M.found = M.listed[i]

\* C26, what the code does: the requested identifier is compared as given
C26_GetRaw ==
    /\ OneListCall
    /\ (Done("Get") /\ DoSucceeded) =>
          LET i == FirstListed(M.ain)
          IN  IF i = 0 THEN M.err = ErrNotFound /\ M.found = NoDev
              ELSE M.err = Nil /\ M.found = M.listed[i]

\* of two devices with the same cleaned identifier the first is returned
C26_WitnessFirst ==
    /\ Done("Get")
    /\ M.ain = <<"0", "8", "1">>
    /\ M.listed = <<ListedB, ListedA>>
    /\ M.found = ListedB
    /\ M.err = Nil

\* an identifier given with its space does not find the device listed
C26_WitnessSpace ==
    /\ Done("Get")
    /\ M.ain = <<"0", "8", " ", "1">>
    /\ M.listed = <<ListedA, ListedB>>
    /\ M.err = ErrNotFound

\* the text with the character at place i replaced by c
Replaced(text, i, c) == [text EXCEPT ![i] = c]

\* the digest computeResponse gives for the combined string text
DigestOf(text) == MD5Hex(Hashed(text))

\* C27: computeResponse returns the challenge, a dash and a digest of 32 hex
\* characters; the digest stays the same when a character above code point
\* 255 of the combined string is replaced by any other character above 255,
\* each such character being hashed as one "."; characters up to 255 are
\* hashed as themselves.
C27_ComputeResponse ==
    Done("computeResponse") =>
        LET text == Combined(M.challenge, M.secret)
        IN  /\ M.cr.challenge = M.challenge
            /\ M.cr.digest.len = 32
            /\ M.cr.digest = computeResponse(M.challenge, M.secret).digest
            /\ M.cr.digest.of = DotsPerCharacter(text)
            /\ \A i \in DOMAIN text : \A c \in CodePoints :
                  (text[i] > 255 /\ c > 255) =>
                      DigestOf(Replaced(text, i, c)) = M.cr.digest

\* C27 holds for texts whose characters lie below U+10000
C27_OneUnitEach ==
    (Done("computeResponse")
       /\ \A i \in DOMAIN M.secret : M.secret[i] < 65536) =>
        LET text == Combined(M.challenge, M.secret)
        IN  /\ M.cr.digest.of = DotsPerCharacter(text)
            /\ \A i \in DOMAIN text : \A c \in CodePoints :
                  (text[i] > 255 /\ c > 255 /\ c < 65536) =>
                      DigestOf(Replaced(text, i, c)) = M.cr.digest

\* the expiry of the session was set and has passed
ExpiredState == HasSession /\ Expired(S, now)

\* a Refresh has found the session expired and is about to fail
FailsNow == M.pc = "RefreshApply" /\ M.chk

\* the session has expired and no call is past its Refresh
Dead == ExpiredState /\ (M.pc \in {"idle", "done"} \/ FailsNow)

\* C28: expiry is absorbing.  A Refresh that fails with ErrExpiredSess, and
\* Close, leave the stored expiry as it is; from then on every Refresh and
\* every Client.Do through the session, the Open of Client.Auth included,
\* fails with ErrExpiredSess without sending a request, and the sid never
\* leaves the sentinel again.
C28_Absorbing ==
    [][/\ (FailsNow /\ th' # th) =>
             /\ S'.Expires = S.Expires
             /\ S'.Sid = DefaultSid
             /\ Dead'
       /\ (M.op \in {"Close", "ClientClose"} /\ HasSession /\ M.pc = "done") =>
             S.Expires = M.pre.Expires
       /\ Dead =>
             /\ Dead'
             /\ S'.Expires = S.Expires
             /\ S.Sid = DefaultSid => S'.Sid = DefaultSid
             /\ M.pc = "RefreshApply" => Cardinality(Sent)' = Cardinality(Sent)
             /\ M.pc # "RefreshApply" => Sent' = {}
             /\ (M.pc = "idle" /\ M'.pc = "done") =>
                   M'.op \in {"NewRequest", "Close", "ClientClose", "IsExpired"}
             /\ (M.pc = "RefreshApply" /\ M.ctx # "Auth" /\ th' # th) =>
                   M'.pc = "done" /\ M'.err = ErrExpiredSess
      ]_vars

\* Client.Auth on a session closed by its expiry fails without a request
C28_Witness ==
    /\ Done("ClientAuth")
    /\ Dead
    /\ WasExpired
    /\ M.pre.Sid = DefaultSid
    /\ M.err = ErrExpiredSess
    /\ Sent = {}
    /\ S.Expires = M.pre.Expires

\* C29: Client.Do slides the expiry forward before the exchange, so the
\* expiry stays at the time of the call's Refresh plus the window also when
\* the exchange then fails in transport, by its status or in decoding; the
\* session is not rolled back after a failed request.
C29_NoRollback ==
    (HasSession /\ M.op \in {"Do", "Open", "Auth", "ClientAuth"} \cup DeviceOps
       /\ (M.pc = "Exchange" \/ (M.pc = "done" /\ ExchangeFailed))) =>
        /\ S.Expires = M.rat + DefaultExpires
        /\ M.rat >= M.pre.at
        /\ M.rat <= now
        /\ S.Expires >= M.pre.Expires

\* a request that failed in transport has extended the session
C29_Witness ==
    /\ Done("Do")
    /\ M.pre.has
    /\ M.pre.Sid \in Tokens
    /\ M.resp.neterr
    /\ M.err = ErrTransport
    /\ S.Expires = M.rat + DefaultExpires
    /\ S.Expires > M.pre.Expires

\* C29, the other cases: a status Do rejects
C29_WitnessStatus ==
    /\ Done("Do")
    /\ M.pre.has
    /\ M.err = ErrWrongStatus
    /\ S.Expires > M.pre.Expires

\* C29, the other cases: a body Do cannot decode
C29_WitnessDecode ==
    /\ Done("Do")
    /\ M.pre.has
    /\ M.err = ErrDecode
    /\ S.Expires > M.pre.Expires

\* the sid of the request the caller holds
BuiltSid == QueryOf(M.built, "sid")

\* C30: a request carries the sid the session had when Client.NewRequest was
\* called.  Whatever happens to the session between NewRequest and Client.Do,
\* an authentication, a Close or the detection of its expiry, the request
\* keeps that sid, and Client.Do sends it as it is, without comparing it with
\* the sid the session has now.
C30_SidAtBuild ==
    [][/\ (M'.pc = "done" /\ M'.op = "NewRequest") =>
             BuiltSid' = IF HasSession THEN {<<S.Sid>>} ELSE {}
       /\ M'.built # M.built => M'.pc = "done" /\ M'.op = "NewRequest"
       /\ (M'.op = "Do" /\ M'.pc # "idle") => M'.req = M'.built
       /\ (M.op = "Do" /\ M.pc = "Exchange" /\ th' # th) =>
             /\ Cardinality(Sent)' = 1
             /\ QueryOf(M'.req, "sid") = BuiltSid
      ]_vars

\* a request built before the authentication is sent with the sentinel
C30_Witness ==
    /\ Done("Do")
    /\ Cardinality(Sent) = 1
    /\ QueryOf(M.req, "sid") = {<<DefaultSid>>}
    /\ S.Sid \in Tokens

\* C30, the other cases: a request built before Close is sent with the sid
\* the session has given up
C30_WitnessStale ==
    /\ Done("Do")
    /\ Cardinality(Sent) = 1
    /\ QueryOf(M.req, "sid") \subseteq {<<v>> : v \in Tokens}
    /\ QueryOf(M.req, "sid") # {}
    /\ S.Sid = DefaultSid

\* C30, the other cases: a request built without a session is sent without
\* a sid through an authenticated session
C30_WitnessNoSid ==
    /\ Done("Do")
    /\ Cardinality(Sent) = 1
    /\ QueryOf(M.req, "sid") = {}
    /\ HasSession

\* Client.NewRequest has returned and could not build the request
NotBuilt == Done("NewRequest") /\ (Parse(M.url).err # Nil \/ ~validMethod(M.method))

\* C31: whenever the request cannot be built, because the relative URL does
\* not parse or because the HTTP request cannot be constructed, as with an
\* invalid method, Client.NewRequest returns a nil request together with an
\* error and does not crash.
C31_NilAndError ==
    NotBuilt => M.req = NoReq /\ M.err \notin {Nil, Panic}

\* C31, what the code does: a URL that does not parse gives the nil request
\* and the error of url.Parse; an invalid method with a URL that parses makes
\* the call panic
C31_Panics ==
    NotBuilt =>
        /\ M.req = NoReq
        /\ M.err = IF Parse(M.url).err # Nil THEN ErrMalformedURL ELSE Panic

\* C31: a URL that does not parse
C31_WitnessURL ==
    /\ Done("NewRequest")
    /\ M.url = "%"
    /\ M.req = NoReq
    /\ M.err = ErrMalformedURL

\* C31: an invalid method
C31_WitnessMethod ==
    /\ Done("NewRequest")
    /\ M.url = "/test"
    /\ M.method = "bad method"
    /\ M.err = Panic

====
